---------------------------- MODULE Spec2Model ----------------------------
(***************************************************************************)
(* RadiantMM SDK: the constant-product math (utils/math.ts), the pool      *)
(* class (pool.ts), the pool script codec (utils/script.ts) and the trade  *)
(* builder (trade.ts).                                                     *)
(*                                                                         *)
(* The SDK computes with JavaScript bigint, which is unbounded, and the    *)
(* guards it states are at 2^62 and 2^63 - 1.  TLC's integers are 32 bits  *)
(* wide, so a bigint is modelled here as a sign and a magnitude, the       *)
(* magnitude a little-endian sequence of bytes without a most significant  *)
(* zero byte.  Two such values are equal as bigints iff they are equal as  *)
(* records.                                                                *)
(***************************************************************************)
EXTENDS Integers, Sequences, FiniteSets, TLC

VARIABLES
    args,   \* the operands the arithmetic and quote functions are called on
    log,    \* the calls made so far, each with its operands and its outcome
    poolScript, \* the locking script of the pool output, <<>> before it is built
    codec,  \* the last call of the script codec, its arguments and outcome
    pools,  \* TradeBuilder.pools
    fundingUtxos, \* TradeBuilder.fundingUtxos
    trade   \* the last call on the TradeBuilder, its arguments and outcome

vars == <<args, log, poolScript, codec, pools, fundingUtxos, trade>>
mathVars == <<args, log>>
codecVars == <<poolScript, codec>>
routerVars == <<pools, fundingUtxos, trade>>

NoCodec == /\ poolScript = <<>>
           /\ codec = [op |-> "none"]
NoMath == /\ args = <<>>
          /\ log = <<>>
NoRouter == /\ pools = <<>>
            /\ fundingUtxos = <<>>
            /\ trade = [op |-> "none"]

-----------------------------------------------------------------------------
(* bigint magnitudes: little-endian byte sequences                          *)

RECURSIVE magNorm(_)
magNorm(m) ==
    IF m = <<>> THEN <<>>
    ELSE IF m[Len(m)] = 0 THEN magNorm(SubSeq(m, 1, Len(m) - 1))
    ELSE m

RECURSIVE magOfNat(_)
magOfNat(n) == IF n = 0 THEN <<>> ELSE <<n % 256>> \o magOfNat(n \div 256)

magCmp(x, y) ==
    IF Len(x) # Len(y) THEN (IF Len(x) < Len(y) THEN -1 ELSE 1)
    ELSE LET diff == {i \in 1..Len(x) : x[i] # y[i]}
         IN  IF diff = {} THEN 0
             ELSE LET k == CHOOSE i \in diff : \A j \in diff : j <= i
                  IN  IF x[k] < y[k] THEN -1 ELSE 1

RECURSIVE magAddC(_, _, _)
magAddC(x, y, c) ==
    IF x = <<>> /\ y = <<>> THEN (IF c = 0 THEN <<>> ELSE <<c>>)
    ELSE LET xd == IF x = <<>> THEN 0 ELSE Head(x)
             yd == IF y = <<>> THEN 0 ELSE Head(y)
             s  == xd + yd + c
         IN  <<s % 256>> \o magAddC(IF x = <<>> THEN <<>> ELSE Tail(x),
                                    IF y = <<>> THEN <<>> ELSE Tail(y),
                                    s \div 256)

magAdd(x, y) == magAddC(x, y, 0)

RECURSIVE magSubB(_, _, _)
magSubB(x, y, brw) ==
    IF x = <<>> THEN <<>>
    ELSE LET yd == IF y = <<>> THEN 0 ELSE Head(y)
             d  == Head(x) - yd - brw
         IN  <<IF d < 0 THEN d + 256 ELSE d>>
             \o magSubB(Tail(x), IF y = <<>> THEN <<>> ELSE Tail(y),
                        IF d < 0 THEN 1 ELSE 0)

\* x - y for x >= y
magSub(x, y) == magNorm(magSubB(x, y, 0))

RECURSIVE magMulSmallC(_, _, _)
magMulSmallC(x, d, c) ==
    IF x = <<>> THEN (IF c = 0 THEN <<>> ELSE <<c>>)
    ELSE LET p == Head(x) * d + c
         IN  <<p % 256>> \o magMulSmallC(Tail(x), d, p \div 256)

\* x * d for one byte d
magMulSmall(x, d) == IF d = 0 THEN <<>> ELSE magMulSmallC(x, d, 0)

magShift(x) == IF x = <<>> THEN <<>> ELSE <<0>> \o x

RECURSIVE magMul(_, _)
magMul(x, y) ==
    IF x = <<>> \/ y = <<>> THEN <<>>
    ELSE magAdd(magMulSmall(x, Head(y)), magShift(magMul(x, Tail(y))))

\* the value of a magnitude of at most three bytes
magInt(m) ==
    (IF Len(m) >= 1 THEN m[1] ELSE 0) + (IF Len(m) >= 2 THEN 256 * m[2] ELSE 0)
        + (IF Len(m) >= 3 THEN 65536 * m[3] ELSE 0)

\* the largest number of a non-empty set of numbers
maxOf(S) == CHOOSE q \in S : \A p \in S : p <= q

\* the largest byte q in lo..hi with d * q <= cur
magDigitIn(cur, d, lo, hi) ==
    maxOf({q \in lo..hi : magCmp(magMulSmall(d, q), cur) <= 0})

\* the largest byte q with d * q <= cur, for 0 < d and cur < 256 * d: the
\* quotient of the leading bytes cTop of cur and dTop of d brackets it
magDigitNear(cur, d, cTop, dTop) ==
    magDigitIn(cur, d, cTop \div (dTop + 1),
               IF cTop \div dTop > 255 THEN 255 ELSE cTop \div dTop)

magDigitFrom(cur, d, drop) ==
    magDigitNear(cur, d, magInt(SubSeq(cur, drop + 1, Len(cur))),
                 magInt(SubSeq(d, drop + 1, Len(d))))

magDigit(cur, d) == magDigitFrom(cur, d, IF Len(d) > 2 THEN Len(d) - 2 ELSE 0)

\* long division from the most significant byte n[i] down, q and r the
\* quotient bytes and the remainder so far
RECURSIVE magDivStep(_, _, _, _, _)
magDivDigit(n, d, i, q, cur, dig) ==
    IF dig = 0 THEN magDivStep(n, d, i - 1, <<0>> \o q, cur)
    ELSE magDivStep(n, d, i - 1, <<dig>> \o q,
                    magSub(cur, magMulSmall(d, dig)))

magDivByte(n, d, i, q, cur) == magDivDigit(n, d, i, q, cur, magDigit(cur, d))

magDivStep(n, d, i, q, r) ==
    IF i = 0 THEN [q |-> magNorm(q), r |-> r]
    ELSE magDivByte(n, d, i, q, magNorm(<<n[i]>> \o r))

magDivMod(n, d) == magDivStep(n, d, Len(n), <<>>, <<>>)

-----------------------------------------------------------------------------
(* bigint values and the operators the SDK uses on them                     *)

mkBig(neg, mag) == [neg |-> neg /\ mag # <<>>, mag |-> mag]

\* a bigint literal such as 3n
BigInt(n) == mkBig(n < 0, magOfNat(IF n < 0 THEN -n ELSE n))

bigNeg(x) == mkBig(~x.neg, x.mag)

bigAdd(x, y) ==
    IF x.neg = y.neg THEN mkBig(x.neg, magAdd(x.mag, y.mag))
    ELSE IF magCmp(x.mag, y.mag) >= 0 THEN mkBig(x.neg, magSub(x.mag, y.mag))
    ELSE mkBig(y.neg, magSub(y.mag, x.mag))

bigSub(x, y) == bigAdd(x, bigNeg(y))

bigMul(x, y) == mkBig(x.neg # y.neg, magMul(x.mag, y.mag))

\* bigint division truncates toward zero; y # 0
bigDiv(x, y) == mkBig(x.neg # y.neg, magDivMod(x.mag, y.mag).q)

bigLt(x, y) ==
    IF x.neg # y.neg THEN x.neg
    ELSE IF x.neg THEN magCmp(x.mag, y.mag) > 0
    ELSE magCmp(x.mag, y.mag) < 0

bigLe(x, y) == x = y \/ bigLt(x, y)
bigGt(x, y) == bigLt(y, x)
bigGe(x, y) == bigLe(y, x)

\* the bigint 2n ** e
TwoTo(e) ==
    mkBig(FALSE, [i \in 1..(e \div 8 + 1) |->
                     IF i = e \div 8 + 1 THEN 2 ^ (e % 8) ELSE 0])

abs(n) == IF bigLt(n, BigInt(0)) THEN bigNeg(n) ELSE n
min(x, y) == IF bigLt(x, y) THEN x ELSE y
max(x, y) == IF bigGt(x, y) THEN x ELSE y

-----------------------------------------------------------------------------
(* utils/math.ts                                                            *)

MAX_SAFE_VALUE == TwoTo(62)
MAX_INT64 == bigSub(TwoTo(63), BigInt(1))

POOL_FEE_NUMERATOR == BigInt(3)
POOL_FEE_DENOMINATOR == BigInt(1000)
DUST_LIMIT == BigInt(546)

Ok(v) == [err |-> "NONE", val |-> v]
Threw(r) == r.err # "NONE"

overflow(operation, a, b) ==
    [err |-> "OVERFLOW", operation |-> operation, a |-> a, b |-> b]
amountTooSmall(amount, minimum) ==
    [err |-> "AMOUNT_TOO_SMALL", amount |-> amount, minimum |-> minimum]
insufficientLiquidity(required, available) ==
    [err |-> "INSUFFICIENT_LIQUIDITY", required |-> required,
     available |-> available]

\* checkOverflow without the test of b against MAX_INT64 / a
checkOverflowOperandsOnly(a, b, operation) ==
    IF bigGt(a, MAX_SAFE_VALUE) \/ bigGt(b, MAX_SAFE_VALUE)
    THEN overflow(operation, a, b)
    ELSE Ok(TRUE)

\* checkOverflow refusing an operand equal to MAX_SAFE_VALUE
checkOverflowStrict(a, b, operation) ==
    IF bigGe(a, MAX_SAFE_VALUE) \/ bigGe(b, MAX_SAFE_VALUE)
    THEN overflow(operation, a, b)
    ELSE IF bigGt(a, BigInt(0)) /\ bigGt(b, bigDiv(MAX_INT64, a))
    THEN overflow(operation, a, b)
    ELSE Ok(TRUE)

\* returns normally (Ok) or throws
checkOverflow(a, b, operation) ==
    IF bigGt(a, MAX_SAFE_VALUE) \/ bigGt(b, MAX_SAFE_VALUE)
    THEN overflow(operation, a, b)
    ELSE IF bigGt(a, BigInt(0)) /\ bigGt(b, bigDiv(MAX_INT64, a))
    THEN overflow(operation, a, b)
    ELSE Ok(TRUE)

calculateK(rxdAmount, tokenAmount) ==
    LET chk == checkOverflow(rxdAmount, tokenAmount, "calculateK")
    IN  IF Threw(chk) THEN chk ELSE Ok(bigMul(rxdAmount, tokenAmount))

\* calculateFee on the signed amount, without the absolute value
calculateFeeSigned(amount) ==
    bigDiv(bigMul(amount, POOL_FEE_NUMERATOR), POOL_FEE_DENOMINATOR)

calculateFee(amount) ==
    LET absAmount == IF bigLt(amount, BigInt(0)) THEN bigNeg(amount) ELSE amount
    IN  bigDiv(bigMul(absAmount, POOL_FEE_NUMERATOR), POOL_FEE_DENOMINATOR)

\* bigint / throws a RangeError on a zero divisor
divide(x, y) ==
    IF y = BigInt(0) THEN [err |-> "RANGE_ERROR"] ELSE Ok(bigDiv(x, y))

calculateTokensOut(rxdReserve, tokenReserve, rxdIn) ==
    IF bigLe(rxdIn, BigInt(0)) THEN amountTooSmall(rxdIn, BigInt(1))
    ELSE
    LET k == calculateK(rxdReserve, tokenReserve)
        fee == calculateFee(rxdIn)
        effectiveRxdIn == bigSub(rxdIn, fee)
        newRxdReserve == bigAdd(rxdReserve, effectiveRxdIn)
        newTokenReserve == divide(k.val, newRxdReserve)
        tokensOut == bigSub(tokenReserve, newTokenReserve.val)
    IN  IF Threw(k) THEN k
        ELSE IF Threw(newTokenReserve) THEN newTokenReserve
        ELSE IF bigLe(tokensOut, BigInt(0))
        THEN insufficientLiquidity(BigInt(1), tokensOut)
        ELSE Ok([tokensOut |-> tokensOut, fee |-> fee])

calculateRxdOut(rxdReserve, tokenReserve, tokensIn) ==
    IF bigLe(tokensIn, BigInt(0)) THEN amountTooSmall(tokensIn, BigInt(1))
    ELSE
    LET k == calculateK(rxdReserve, tokenReserve)
        newTokenReserve == bigAdd(tokenReserve, tokensIn)
        newRxdReserve == divide(k.val, newTokenReserve)
        grossRxdOut == bigSub(rxdReserve, newRxdReserve.val)
        fee == calculateFee(grossRxdOut)
        rxdOut == bigSub(grossRxdOut, fee)
    IN  IF Threw(k) THEN k
        ELSE IF Threw(newRxdReserve) THEN newRxdReserve
        ELSE IF bigLe(rxdOut, BigInt(0))
        THEN insufficientLiquidity(BigInt(1), rxdOut)
        ELSE Ok([rxdOut |-> rxdOut, fee |-> fee])

\* calculateRxdInForExactTokensOut with the new RXD reserve rounded down
calculateRxdInForExactTokensOutFloor(rxdReserve, tokenReserve, tokensOut) ==
    IF bigGe(tokensOut, tokenReserve)
    THEN insufficientLiquidity(tokensOut, bigSub(tokenReserve, BigInt(1)))
    ELSE
    LET k == calculateK(rxdReserve, tokenReserve)
        newTokenReserve == bigSub(tokenReserve, tokensOut)
        newRxdReserve == divide(k.val, newTokenReserve)
        grossRxdIn == bigSub(newRxdReserve.val, rxdReserve)
        rxdIn == bigDiv(bigSub(bigSub(bigAdd(bigMul(grossRxdIn,
                                                    POOL_FEE_DENOMINATOR),
                                             POOL_FEE_DENOMINATOR),
                                      POOL_FEE_NUMERATOR), BigInt(1)),
                        bigSub(POOL_FEE_DENOMINATOR, POOL_FEE_NUMERATOR))
    IN  IF Threw(k) THEN k
        ELSE IF Threw(newRxdReserve) THEN newRxdReserve
        ELSE Ok([rxdIn |-> rxdIn, fee |-> calculateFee(rxdIn)])

calculateRxdInForExactTokensOut(rxdReserve, tokenReserve, tokensOut) ==
    IF bigGe(tokensOut, tokenReserve)
    THEN insufficientLiquidity(tokensOut, bigSub(tokenReserve, BigInt(1)))
    ELSE
    LET k == calculateK(rxdReserve, tokenReserve)
        newTokenReserve == bigSub(tokenReserve, tokensOut)
        \* ceiling division
        newRxdReserve ==
            divide(bigSub(bigAdd(k.val, newTokenReserve), BigInt(1)),
                   newTokenReserve)
        grossRxdIn == bigSub(newRxdReserve.val, rxdReserve)
        rxdIn == bigDiv(bigSub(bigSub(bigAdd(bigMul(grossRxdIn,
                                                    POOL_FEE_DENOMINATOR),
                                             POOL_FEE_DENOMINATOR),
                                      POOL_FEE_NUMERATOR), BigInt(1)),
                        bigSub(POOL_FEE_DENOMINATOR, POOL_FEE_NUMERATOR))
    IN  IF Threw(k) THEN k
        ELSE IF Threw(newRxdReserve) THEN newRxdReserve
        ELSE Ok([rxdIn |-> rxdIn, fee |-> calculateFee(rxdIn)])

verifyKInvariant(rxdIn, tokenIn, rxdOut, tokenOut, fee) ==
    LET kIn == calculateK(rxdIn, tokenIn)
        effectiveRxdOut == bigSub(rxdOut, fee)
        kOut == bigMul(effectiveRxdOut, tokenOut)
    IN  IF Threw(kIn) THEN kIn ELSE Ok(bigGe(kOut, kIn.val))

-----------------------------------------------------------------------------
(* pool.ts                                                                  *)

PoolState(rxdAmount, tokenAmount, k) ==
    [rxdAmount |-> rxdAmount, tokenAmount |-> tokenAmount, k |-> k]

\* a const of the source is bound to its value once, as the one element of a
\* set: CHOOSE r \in {f(x) : x \in {e}} : TRUE is f on the value of e
getTokensForRxd(pool, rxdIn) ==
    LET state(q) ==
            LET newRxd == bigAdd(pool.rxdAmount, rxdIn)
                newToken == bigSub(pool.tokenAmount, q.val.tokensOut)
                result(k) ==
                    IF Threw(k) THEN k
                    ELSE Ok([tokensOut |-> q.val.tokensOut, fee |-> q.val.fee,
                             newState |-> PoolState(newRxd, newToken, k.val)])
            IN  IF Threw(q) THEN q
                ELSE CHOOSE r \in {result(k) :
                                      k \in {calculateK(newRxd, newToken)}} : TRUE
    IN  CHOOSE r \in {state(q) :
                      q \in {calculateTokensOut(pool.rxdAmount,
                                                pool.tokenAmount, rxdIn)}} : TRUE

getRxdForTokens(pool, tokensIn) ==
    LET state(q) ==
            LET newRxd == bigSub(pool.rxdAmount, q.val.rxdOut)
                newToken == bigAdd(pool.tokenAmount, tokensIn)
                result(k) ==
                    IF Threw(k) THEN k
                    ELSE Ok([rxdOut |-> q.val.rxdOut, fee |-> q.val.fee,
                             newState |-> PoolState(newRxd, newToken, k.val)])
            IN  IF Threw(q) THEN q
                ELSE CHOOSE r \in {result(k) :
                                      k \in {calculateK(newRxd, newToken)}} : TRUE
    IN  CHOOSE r \in {state(q) :
                      q \in {calculateRxdOut(pool.rxdAmount,
                                             pool.tokenAmount, tokensIn)}} : TRUE

\* the quote is tried and whatever it throws is caught
hasLiquidity(pool, amount, direction) ==
    IF direction = "buy"
    THEN ~Threw(getTokensForRxd(pool, amount))
    ELSE ~Threw(getRxdForTokens(pool, amount))

-----------------------------------------------------------------------------
(* utils/script.ts: a Buffer is a sequence of bytes; its indices are        *)
(* 0-based as in the source                                                 *)

OP_0 == \H00
OP_DEPTH == \H74
OP_DROP == \H75
OP_DUP == \H76
OP_NIP == \H77
OP_SWAP == \H7c
OP_TUCK == \H7d
OP_ROT == \H7b
OP_IF == \H63
OP_ELSE == \H67
OP_ENDIF == \H68
OP_HASH160 == \Ha9
OP_CHECKSIG == \Hac
OP_EQUALVERIFY == \H88
OP_LESSTHANOREQUAL == \Ha1
OP_SUB == \H94
OP_MUL == \H95
OP_DIV == \H96
OP_ABS == \H90
OP_SIZE == \H82
OP_SPLIT == \H7f
OP_BIN2NUM == \H81
OP_INPUTINDEX == \Hc0
OP_UTXOVALUE == \Hc5
OP_OUTPUTVALUE == \Hc6
OP_UTXOBYTECODE == \Hc7
OP_OUTPUTBYTECODE == \Hc8
OP_STATESEPARATOR == \Hbd
OP_PUSHDATA1 == \H4c
OP_PUSHDATA2 == \H4d

STATE_SIZE == 8
OWNER_PKH_SIZE == 20

scriptError(code, message) == [err |-> code, message |-> message]

\* Buffer.subarray(start, end), both clamped to the length
subarray(buf, start, end) ==
    LET e == IF end > Len(buf) THEN Len(buf) ELSE end
    IN  IF start >= e THEN <<>> ELSE SubSeq(buf, start + 1, e)

\* Buffer.lastIndexOf(byte): the last index holding it, or -1
lastIndexOf(buf, byte) ==
    LET hits == {i \in 1..Len(buf) : buf[i] = byte}
    IN  IF hits = {} THEN -1
        ELSE (CHOOSE i \in hits : \A j \in hits : j <= i) - 1

\* Buffer.indexOf(pattern): the first index where it starts, or -1
indexOf(buf, pattern) ==
    LET hits == {i \in 1..(Len(buf) - Len(pattern) + 1) :
                    \A j \in 1..Len(pattern) : buf[i + j - 1] = pattern[j]}
    IN  IF hits = {} THEN -1
        ELSE (CHOOSE i \in hits : \A j \in hits : i <= j) - 1

\* Buffer.writeBigInt64LE: two's complement, RangeError outside int64
encodeTokenAmount(amount) ==
    IF bigGt(amount, MAX_INT64) \/ bigLt(amount, bigNeg(TwoTo(63)))
    THEN [err |-> "RANGE_ERROR"]
    ELSE LET u == IF amount.neg THEN bigAdd(TwoTo(64), amount) ELSE amount
         IN  Ok([i \in 1..8 |-> IF i <= Len(u.mag) THEN u.mag[i] ELSE 0])

\* Buffer.readBigInt64LE
decodeTokenAmount(buf) ==
    IF Len(buf) # 8
    THEN scriptError("INVALID_STATE", "Invalid token amount size")
    ELSE LET u == mkBig(FALSE, magNorm(buf))
         IN  Ok(IF buf[8] >= 128 THEN bigSub(u, TwoTo(64)) ELSE u)

encodeState(tokenAmount) == encodeTokenAmount(tokenAmount)

decodeState(script) ==
    LET separatorIndex == lastIndexOf(script, OP_STATESEPARATOR)
        stateData == subarray(script, separatorIndex + 1, Len(script))
        tokenAmount == decodeTokenAmount(subarray(stateData, 0, 8))
    IN  IF separatorIndex = -1
        THEN scriptError("INVALID_SCRIPT", "No state separator found in script")
        ELSE IF Len(stateData) < STATE_SIZE
        THEN scriptError("INVALID_STATE", "State too small")
        ELSE IF Threw(tokenAmount) THEN tokenAmount
        ELSE Ok([tokenAmount |-> tokenAmount.val])

pushData(data) ==
    LET len == Len(data)
    IN  IF len = 0 THEN Ok(<<OP_0>>)
        ELSE IF len <= 75 THEN Ok(<<len>> \o data)
        ELSE IF len <= 255 THEN Ok(<<OP_PUSHDATA1, len>> \o data)
        ELSE IF len <= 65535
        THEN Ok(<<OP_PUSHDATA2, len % 256, len \div 256>> \o data)
        ELSE scriptError("SCRIPT_TOO_LARGE", "Data too large for push")

\* pushNumber never adding the byte that carries the sign
pushNumberNoSignByte(n) ==
    IF n = BigInt(0) THEN Ok(<<OP_0>>)
    ELSE IF bigGe(n, BigInt(1)) /\ bigLe(n, BigInt(16))
    THEN Ok(<<\H50 + n.mag[1]>>)
    ELSE IF n = BigInt(-1) THEN Ok(<<\H4f>>)
    ELSE LET neg == bigLt(n, BigInt(0))
             bytes == n.mag
             top == bytes[Len(bytes)]
         IN  IF neg /\ top < 128
             THEN pushData([bytes EXCEPT ![Len(bytes)] = top + 128])
             ELSE pushData(bytes)

pushNumber(n) ==
    IF n = BigInt(0) THEN Ok(<<OP_0>>)
    ELSE IF bigGe(n, BigInt(1)) /\ bigLe(n, BigInt(16))
    THEN Ok(<<\H50 + n.mag[1]>>)
    ELSE IF n = BigInt(-1) THEN Ok(<<\H4f>>)
    ELSE LET neg == bigLt(n, BigInt(0))
             bytes == n.mag
             top == bytes[Len(bytes)]
         IN  IF top >= 128
             THEN pushData(Append(bytes, IF neg THEN \H80 ELSE \H00))
             ELSE IF neg
             THEN pushData([bytes EXCEPT ![Len(bytes)] = top + 128])
             ELSE pushData(bytes)

buildCodePortion(ownerPkh) ==
    <<OP_DEPTH, OP_IF>>
    \o <<OP_DUP, OP_HASH160>>
    \o pushData(ownerPkh).val
    \o <<OP_EQUALVERIFY, OP_CHECKSIG>>
    \o <<OP_ELSE>>
    \o <<OP_INPUTINDEX, OP_OUTPUTBYTECODE, OP_INPUTINDEX, OP_UTXOBYTECODE,
         OP_EQUALVERIFY>>
    \o <<OP_INPUTINDEX, OP_UTXOVALUE, OP_INPUTINDEX, OP_UTXOBYTECODE, OP_SIZE>>
    \o pushNumber(BigInt(8)).val
    \o <<OP_SUB, OP_SPLIT, OP_NIP, OP_BIN2NUM, OP_TUCK, OP_MUL, OP_SWAP>>
    \o <<OP_INPUTINDEX, OP_UTXOVALUE, OP_INPUTINDEX, OP_OUTPUTVALUE, OP_TUCK,
         OP_SUB, OP_ABS>>
    \o pushNumber(BigInt(3)).val
    \o <<OP_MUL>>
    \o pushNumber(BigInt(1000)).val
    \o <<OP_DIV, OP_SUB>>
    \o <<OP_INPUTINDEX, OP_OUTPUTBYTECODE, OP_SIZE>>
    \o pushNumber(BigInt(8)).val
    \o <<OP_SUB, OP_SPLIT, OP_NIP, OP_BIN2NUM, OP_MUL>>
    \o <<OP_ROT, OP_DROP, OP_SWAP, OP_LESSTHANOREQUAL>>
    \o <<OP_ENDIF>>

\* buildPoolScript without the check of the hash's length
buildPoolScriptAnyHash(ownerPkh, tokenAmount) ==
    LET code == buildCodePortion(ownerPkh)
        state == encodeState(tokenAmount)
    IN  IF Threw(state) THEN state
        ELSE Ok(code \o <<OP_STATESEPARATOR>> \o state.val)

buildPoolScript(ownerPkh, tokenAmount) ==
    IF Len(ownerPkh) # OWNER_PKH_SIZE
    THEN scriptError("INVALID_SCRIPT", "Invalid owner PKH size")
    ELSE LET code == buildCodePortion(ownerPkh)
             state == encodeState(tokenAmount)
         IN  IF Threw(state) THEN state
             ELSE Ok(code \o <<OP_STATESEPARATOR>> \o state.val)

parsePoolScript(script) ==
    LET separatorIndex == lastIndexOf(script, OP_STATESEPARATOR)
        codePortion == subarray(script, 0, separatorIndex)
        hash160Index == indexOf(codePortion, <<OP_DUP, OP_HASH160>>)
        pkhStart == hash160Index + 3
        ownerPkh == subarray(codePortion, pkhStart, pkhStart + 20)
        state == decodeState(script)
    IN  IF separatorIndex = -1
        THEN scriptError("INVALID_SCRIPT", "No state separator found")
        ELSE IF hash160Index = -1
        THEN scriptError("INVALID_SCRIPT", "Owner PKH not found")
        ELSE IF Threw(state) THEN state
        ELSE Ok([codeHash |-> [i \in 1..32 |-> 0], ownerPkh |-> ownerPkh,
                 state |-> state.val])

updateScriptState(script, newTokenAmount) ==
    LET separatorIndex == lastIndexOf(script, OP_STATESEPARATOR)
        codePortion == subarray(script, 0, separatorIndex + 1)
        newState == encodeState(newTokenAmount)
    IN  IF separatorIndex = -1
        THEN scriptError("INVALID_SCRIPT", "No state separator")
        ELSE IF Threw(newState) THEN newState
        ELSE Ok(codePortion \o newState.val)

-----------------------------------------------------------------------------
(* calculateK and calculateFee applied to drawn operands                    *)

\* operands within Window of zero, of either sign
Window == 3

ArithOperands ==
    {BigInt(n) : n \in -Window..Window}
    \cup {BigInt(n) : n \in {100, 333, 334, 666, 667, 999, 1000, 1001, 10000,
                             -100, -334, -1000, -1001}}
    \cup {TwoTo(31), TwoTo(32), bigSub(TwoTo(32), BigInt(1)), TwoTo(40),
          bigSub(MAX_SAFE_VALUE, BigInt(1)), MAX_SAFE_VALUE,
          bigAdd(MAX_SAFE_VALUE, BigInt(1)), MAX_INT64,
          bigAdd(MAX_INT64, BigInt(1)), TwoTo(70)}

ArithInit ==
    /\ args \in {<<x, y>> : x \in ArithOperands, y \in ArithOperands}
    /\ log = <<>>
    /\ NoCodec
    /\ NoRouter

CalculateK ==
    /\ Len(args) = 2
    /\ log' = Append(log, [op |-> "calculateK", a |-> args[1], b |-> args[2],
                           result |-> calculateK(args[1], args[2])])
    /\ args' = <<>>
    /\ UNCHANGED <<codecVars, routerVars>>

CalculateFee ==
    /\ Len(args) \in {1, 2}
    /\ log' = Append(log, [op |-> "calculateFee", amount |-> Head(args),
                           result |-> Ok(calculateFee(Head(args)))])
    /\ args' = Tail(args)
    /\ UNCHANGED <<codecVars, routerVars>>

ArithNext == CalculateK \/ CalculateFee

ArithSpec == ArithInit /\ [][ArithNext]_vars

KCalls == {i \in 1..Len(log) : log[i].op = "calculateK"}
FeeCalls == {i \in 1..Len(log) : log[i].op = "calculateFee"}

-----------------------------------------------------------------------------
(* C8 *)

\* C8, as stated: calculateK(2^63 - 1, 2) fails with Overflow, and a product
\* with a zero operand is 0 whatever the size of the other operand.
C8_ZeroOperandAnySize ==
    \A i \in KCalls :
        LET c == log[i]
        IN  /\ (c.a = MAX_INT64 /\ c.b = BigInt(2)) => c.result.err = "OVERFLOW"
            /\ (c.a = BigInt(0) \/ c.b = BigInt(0)) => c.result = Ok(BigInt(0))

\* C8, amended: calculateK(2^63 - 1, 2) fails with Overflow; a product with a
\* zero operand is 0 when the other operand is at most 2^62, and fails with
\* Overflow when the other operand is above 2^62.
C8_ZeroOperandWithinGuard ==
    \A i \in KCalls :
        LET c == log[i]
            zero == c.a = BigInt(0) \/ c.b = BigInt(0)
            within == bigLe(c.a, MAX_SAFE_VALUE) /\ bigLe(c.b, MAX_SAFE_VALUE)
        IN  /\ (c.a = MAX_INT64 /\ c.b = BigInt(2)) => c.result.err = "OVERFLOW"
            /\ (zero /\ within) => c.result = Ok(BigInt(0))
            /\ (zero /\ ~within) => c.result.err = "OVERFLOW"

\* calculateK(0, 2^62) has returned 0
C8_Witness ==
    \E i \in KCalls :
        /\ log[i].a = BigInt(0)
        /\ log[i].b = MAX_SAFE_VALUE
        /\ log[i].result = Ok(BigInt(0))

(* C9 *)

C10_FeeIsFloor ==
    /\ \A i \in FeeCalls :
           LET m == abs(log[i].amount)
               f == log[i].result.val
           IN  /\ bigGe(f, BigInt(0))
               /\ bigLe(bigMul(f, BigInt(1000)), bigMul(m, BigInt(3)))
               /\ bigLt(bigMul(m, BigInt(3)),
                        bigMul(bigAdd(f, BigInt(1)), BigInt(1000)))
               /\ log[i].amount = BigInt(1000) => f = BigInt(3)
               /\ log[i].amount = BigInt(-1000) => f = BigInt(3)
               /\ log[i].amount = BigInt(100) => f = BigInt(0)
    /\ \A i, j \in FeeCalls :
           bigLe(abs(log[i].amount), abs(log[j].amount))
               => bigLe(log[i].result.val, log[j].result.val)

\* the fees of -1000 and of 1001 have both been computed
C10_Witness ==
    /\ Len(log) = 2
    /\ log[1] = [op |-> "calculateFee", amount |-> BigInt(-1000),
                 result |-> Ok(BigInt(3))]
    /\ log[2].op = "calculateFee"
    /\ log[2].amount = BigInt(1001)

-----------------------------------------------------------------------------
(* the quote functions applied to drawn reserves and amounts, and           *)
(* verifyKInvariant applied to the states before and after a quote          *)

\* reserves 0..MaxReserve and amounts -1..MaxAmount, next to the documented ones
MaxReserve == 5
MaxAmount == 5

Reserves ==
    {BigInt(n) : n \in 0..MaxReserve}
    \cup {BigInt(500), BigInt(1000), BigInt(5000), BigInt(10000)}
    \cup {TwoTo(31), MAX_SAFE_VALUE}

Amounts ==
    {BigInt(n) : n \in -1..MaxAmount}
    \cup {BigInt(100), BigInt(1000), BigInt(20000), TwoTo(40)}

QuoteInit ==
    /\ args \in {<<r, t, x>> : r \in Reserves, t \in Reserves, x \in Amounts}
    /\ log = <<>>
    /\ NoCodec
    /\ NoRouter

QuoteCall(op, result) ==
    [op |-> op, rxdReserve |-> args[1], tokenReserve |-> args[2],
     amountIn |-> args[3], result |-> result]

ArgPool == [rxdAmount |-> args[1], tokenAmount |-> args[2]]

CalculateTokensOut ==
    /\ Len(args) = 3
    /\ log' = Append(log, QuoteCall("calculateTokensOut",
                            calculateTokensOut(args[1], args[2], args[3])))
    /\ args' = <<>>
    /\ UNCHANGED <<codecVars, routerVars>>

CalculateRxdOut ==
    /\ Len(args) = 3
    /\ log' = Append(log, QuoteCall("calculateRxdOut",
                            calculateRxdOut(args[1], args[2], args[3])))
    /\ args' = <<>>
    /\ UNCHANGED <<codecVars, routerVars>>

GetTokensForRxd ==
    /\ Len(args) = 3
    /\ log' = Append(log, QuoteCall("getTokensForRxd",
                            getTokensForRxd(ArgPool, args[3])))
    /\ args' = <<>>
    /\ UNCHANGED <<codecVars, routerVars>>

GetRxdForTokens ==
    /\ Len(args) = 3
    /\ log' = Append(log, QuoteCall("getRxdForTokens",
                            getRxdForTokens(ArgPool, args[3])))
    /\ args' = <<>>
    /\ UNCHANGED <<codecVars, routerVars>>

CalculateRxdInForExactTokensOut ==
    /\ Len(args) = 3
    /\ log' = Append(log, QuoteCall("calculateRxdInForExactTokensOut",
                            calculateRxdInForExactTokensOut(args[1], args[2],
                                                            args[3])))
    /\ args' = <<>>
    /\ UNCHANGED <<codecVars, routerVars>>

\* the RXD amount the inverse quote log[1] returned is quoted forward on the
\* same reserves
QuoteRxdInForward ==
    /\ Len(log) = 1
    /\ log[1].op = "calculateRxdInForExactTokensOut"
    /\ ~Threw(log[1].result)
    /\ log' = Append(log,
                [op |-> "calculateTokensOut",
                 rxdReserve |-> log[1].rxdReserve,
                 tokenReserve |-> log[1].tokenReserve,
                 amountIn |-> log[1].result.val.rxdIn,
                 result |-> calculateTokensOut(log[1].rxdReserve,
                                               log[1].tokenReserve,
                                               log[1].result.val.rxdIn)])
    /\ UNCHANGED <<args, codecVars, routerVars>>

BuyOps == {"calculateTokensOut", "getTokensForRxd"}
SellOps == {"calculateRxdOut", "getRxdForTokens"}

\* the reserves a quote leaves: RXD in and tokens out for a buy, tokens in and
\* RXD out for a sell
AfterQuote(c) ==
    IF c.op \in BuyOps
    THEN [rxdAmount |-> bigAdd(c.rxdReserve, c.amountIn),
          tokenAmount |-> bigSub(c.tokenReserve, c.result.val.tokensOut)]
    ELSE [rxdAmount |-> bigSub(c.rxdReserve, c.result.val.rxdOut),
          tokenAmount |-> bigAdd(c.tokenReserve, c.amountIn)]

VerifyKInvariant ==
    /\ Len(log) = 1
    /\ log[1].op \in BuyOps \cup SellOps
    /\ ~Threw(log[1].result)
    /\ LET c == log[1]
           after == AfterQuote(c)
       IN  log' = Append(log,
                    [op |-> "verifyKInvariant",
                     rxdIn |-> c.rxdReserve, tokenIn |-> c.tokenReserve,
                     rxdOut |-> after.rxdAmount, tokenOut |-> after.tokenAmount,
                     fee |-> c.result.val.fee,
                     result |-> verifyKInvariant(c.rxdReserve, c.tokenReserve,
                                                 after.rxdAmount,
                                                 after.tokenAmount,
                                                 c.result.val.fee)])
    /\ UNCHANGED <<args, codecVars, routerVars>>

QuoteNext ==
    \/ CalculateTokensOut
    \/ CalculateRxdOut
    \/ GetTokensForRxd
    \/ GetRxdForTokens
    \/ VerifyKInvariant
    \/ CalculateRxdInForExactTokensOut
    \/ QuoteRxdInForward

QuoteSpec == QuoteInit /\ [][QuoteNext]_vars

\* a quote on positive reserves
PositiveReserves(c) ==
    bigGt(c.rxdReserve, BigInt(0)) /\ bigGt(c.tokenReserve, BigInt(0))

\* the invariant check has run on the states before and after quote log[1]
Verified == Len(log) = 2 /\ log[2].op = "verifyKInvariant"

(* C1 *)

\* C1: for positive reserves and 0 < rxdIn <= 2^40, whenever the buy quote
\* returns (tokensOut, fee), verifyKInvariant(rxdReserve, tokenReserve,
\* rxdReserve + rxdIn, tokenReserve - tokensOut, fee) returns true.
C1_BuyQuoteKeepsK ==
    (/\ Verified
     /\ log[1].op \in BuyOps
     /\ PositiveReserves(log[1])
     /\ bigLe(log[1].amountIn, TwoTo(40)))
        => log[2].result = Ok(TRUE)

(* C2 *)

\* C2: whenever the sell quote returns (rxdOut, fee) on positive reserves,
\* verifyKInvariant(rxdReserve, tokenReserve, rxdReserve - rxdOut,
\* tokenReserve + tokensIn, fee) returns true; on reserves (10000, 1000) and
\* 100 tokens in, the quote is fee 2 and net 908 (gross 910).
C2_SellQuoteKeepsK ==
    (/\ Verified
     /\ log[1].op \in SellOps
     /\ PositiveReserves(log[1]))
        => /\ log[2].result = Ok(TRUE)
           /\ (/\ log[1].rxdReserve = BigInt(10000)
               /\ log[1].tokenReserve = BigInt(1000)
               /\ log[1].amountIn = BigInt(100))
                  => /\ log[1].result.val.rxdOut = BigInt(908)
                     /\ log[1].result.val.fee = BigInt(2)

(* C7 *)

\* C7: for positive reserves whose product is within the overflow guard and
\* 0 < rxdIn <= 2^40, calculateTokensOut returns tokensOut with
\* 0 < tokensOut < tokenReserve.
C7_TokensOutBelowReserve ==
    \A i \in 1..Len(log) :
        LET c == log[i]
        IN  (/\ c.op = "calculateTokensOut"
             /\ PositiveReserves(c)
             /\ ~Threw(calculateK(c.rxdReserve, c.tokenReserve))
             /\ bigGt(c.amountIn, BigInt(0))
             /\ bigLe(c.amountIn, TwoTo(40)))
                => /\ ~Threw(c.result)
                   /\ bigGt(c.result.val.tokensOut, BigInt(0))
                   /\ bigLt(c.result.val.tokensOut, c.tokenReserve)

-----------------------------------------------------------------------------
(* the script codec applied to a pool output: its script is built, its      *)
(* state is replaced trade after trade, and it is parsed                    *)

\* token amounts within SeparatorSpan of the separator byte value 0xBD
SeparatorSpan == 1
\* updateScriptState is applied to scripts of at most MaxScriptLen bytes
MaxScriptLen == 83

Hashes ==
    {[i \in 1..20 |-> \H01],
     [i \in 1..20 |-> OP_STATESEPARATOR],
     [i \in 1..20 |-> IF i % 2 = 1 THEN OP_DUP ELSE OP_HASH160],
     [i \in 1..19 |-> \H01],
     [i \in 1..21 |-> \H01]}

TokenAmounts ==
    {BigInt(n) : n \in (OP_STATESEPARATOR - SeparatorSpan)
                       ..(OP_STATESEPARATOR + SeparatorSpan)}
    \cup {BigInt(0), BigInt(1000), BigInt(-1),
          mkBig(FALSE, <<0, OP_STATESEPARATOR>>),
          bigSub(mkBig(FALSE, <<0, 0, 0, 0, 0, 0, 0, OP_STATESEPARATOR>>),
                 TwoTo(64)),
          MAX_INT64, bigNeg(TwoTo(63)), TwoTo(63)}

\* bytes that no buildPoolScript call returned: a code portion alone, a
\* state behind a separator with no withdrawal branch before it, a script cut
\* one byte short, and a lone separator
RawScripts ==
    {buildCodePortion([i \in 1..20 |-> \H01]),
     <<OP_DEPTH, OP_IF, OP_STATESEPARATOR>> \o [i \in 1..STATE_SIZE |-> 0],
     buildCodePortion([i \in 1..20 |-> \H01]) \o <<OP_STATESEPARATOR>>
         \o [i \in 1..(STATE_SIZE - 1) |-> 0],
     <<OP_STATESEPARATOR>>}

CodecInit ==
    /\ NoMath
    /\ NoCodec
    /\ NoRouter

BuildPoolScript ==
    /\ \E h \in Hashes, t \in TokenAmounts :
          LET r == buildPoolScript(h, t)
          IN  /\ codec' = [op |-> "buildPoolScript", ownerPkh |-> h,
                           tokenAmount |-> t, result |-> r]
              /\ poolScript' = IF Threw(r) THEN poolScript ELSE r.val
    /\ UNCHANGED <<mathVars, routerVars>>

UpdateScriptState ==
    /\ Len(poolScript) <= MaxScriptLen
    /\ \E t \in TokenAmounts :
          LET r == updateScriptState(poolScript, t)
          IN  /\ codec' = [op |-> "updateScriptState", script |-> poolScript,
                           newTokenAmount |-> t, result |-> r]
              /\ poolScript' = IF Threw(r) THEN poolScript ELSE r.val
    /\ UNCHANGED <<mathVars, routerVars>>

\* parsePoolScript is given the script at hand or any other bytes
ParsePoolScript ==
    /\ \E s \in {poolScript} \cup RawScripts :
          codec' = [op |-> "parsePoolScript", script |-> s,
                    result |-> parsePoolScript(s)]
    /\ UNCHANGED <<poolScript, mathVars, routerVars>>

\* numbers at the edges of pushNumber's cases and of each payload length
ScriptNumbers ==
    {BigInt(n) : n \in {-32768, -32767, -256, -255, -129, -128, -127, -17, -2,
                        -1, 0, 1, 2, 16, 17, 127, 128, 255, 256, 1000, 32767,
                        32768, 8388607, 8388608}}
    \cup {TwoTo(31), bigNeg(TwoTo(31)), MAX_INT64, bigNeg(TwoTo(63))}

\* pushNumber reads nothing but its argument: it is called before any script
\* is built
PushNumber ==
    /\ poolScript = <<>>
    /\ \E n \in ScriptNumbers :
          codec' = [op |-> "pushNumber", n |-> n, result |-> pushNumber(n)]
    /\ UNCHANGED <<poolScript, mathVars, routerVars>>

CodecNext ==
    BuildPoolScript \/ UpdateScriptState \/ ParsePoolScript \/ PushNumber

CodecSpec == CodecInit /\ [][CodecNext]_vars

InInt64(t) == bigGe(t, bigNeg(TwoTo(63))) /\ bigLe(t, MAX_INT64)

\* every script buildPoolScript returns on the drawn hashes and amounts
BuiltScripts ==
    {[h |-> h, t |-> t, s |-> buildPoolScript(h, t).val] :
        h \in {x \in Hashes : Len(x) = OWNER_PKH_SIZE},
        t \in {x \in TokenAmounts : InInt64(x)}}

(* C4 *)

\* C4: for every 20-byte owner hash and every token reserve in 0..2^63 - 1,
\* parsePoolScript(buildPoolScript(hash, reserve)) succeeds and returns
\* exactly the hash and the reserve.
C4_ParseInvertsBuild ==
    \A b \in BuiltScripts :
        (/\ codec.op = "parsePoolScript"
         /\ codec.script = b.s
         /\ bigGe(b.t, BigInt(0)))
            => /\ ~Threw(codec.result)
               /\ codec.result.val.ownerPkh = b.h
               /\ codec.result.val.state.tokenAmount = b.t

(* C5 *)

\* C5: for every 20-byte h and all t0, t1 in the signed 64-bit range,
\* updateScriptState(buildPoolScript(h, t0), t1) is byte for byte
\* buildPoolScript(h, t1).
C5_UpdateEqualsBuild ==
    \A b \in BuiltScripts :
        (/\ codec.op = "updateScriptState"
         /\ codec.script = b.s
         /\ InInt64(codec.newTokenAmount))
            => codec.result = buildPoolScript(b.h, codec.newTokenAmount)

(* C6 *)

\* C6: for a script s obtained from buildPoolScript by updateScriptState calls
\* and t in the signed 64-bit range, updateScriptState(s, t) has the length of
\* s, equals s in every byte but the last 8, and ends with the little-endian
\* encoding of t.
C6_UpdateTouchesOnlyState ==
    (/\ codec.op = "updateScriptState"
     /\ codec.script # <<>>
     /\ InInt64(codec.newTokenAmount))
        => /\ ~Threw(codec.result)
           /\ Len(codec.result.val) = Len(codec.script)
           /\ \A i \in 1..(Len(codec.script) - 8) :
                  codec.result.val[i] = codec.script[i]
           /\ subarray(codec.result.val, Len(codec.result.val) - 8,
                       Len(codec.result.val))
                  = encodeTokenAmount(codec.newTokenAmount).val

-----------------------------------------------------------------------------
(* pool.ts and trade.ts: pools made from UTXOs and the TradeBuilder         *)

UTXO(txid, vout, value, scriptPubKey) ==
    [txid |-> txid, vout |-> vout, value |-> value,
     scriptPubKey |-> scriptPubKey]

Output(value, scriptPubKey) == [value |-> value, scriptPubKey |-> scriptPubKey]

\* RadiantMMPool.fromUtxo: the pool object, or INVALID_POOL_STATE
fromUtxo(utxo) ==
    LET parsed == parsePoolScript(utxo.scriptPubKey)
    IN  IF Threw(parsed)
        THEN [err |-> "INVALID_POOL_STATE", txid |-> utxo.txid,
              vout |-> utxo.vout]
        ELSE Ok([utxo |-> utxo, rxdAmount |-> utxo.value,
                 tokenAmount |-> parsed.val.state.tokenAmount,
                 ownerPkh |-> parsed.val.ownerPkh])

\* the pools and the receiver the builder below is given
OwnerPkh == [i \in 1..20 |-> \H01]
Receiver == <<OP_DUP, OP_HASH160>>

PoolUtxo(txid, value, tokenAmount) ==
    UTXO(txid, 0, BigInt(value),
         buildPoolScript(OwnerPkh, BigInt(tokenAmount)).val)

PoolUtxos ==
    {PoolUtxo(u[1], u[2], u[3]) :
        u \in {<<"a", 10000, 1000>>, <<"b", 5000, 500>>, <<"d", 1, 1>>,
               <<"e", 1890, OP_STATESEPARATOR>>,
               <<"h", 134217729, 134217728>>,
               <<"i", 134217730, 134217729>>,
               <<"w", 100, 1000>>}}

\* the pools RadiantMMPool.fromUtxo makes of them
Pools == {r.val : r \in {x \in {fromUtxo(u) : u \in PoolUtxos} : ~Threw(x)}}

\* a JavaScript number is an IEEE 754 double; a finite one is held as the
\* integer value * 256^NumberFractionBytes, which is exact for the quotients
\* of operands below 2^64 in magnitude
NumberFractionBytes == 15
MantissaBits == 53

magBitLen(m) ==
    IF m = <<>> THEN 0
    ELSE 8 * (Len(m) - 1)
         + (CHOOSE k \in 1..8 : 2 ^ (k - 1) <= m[Len(m)] /\ m[Len(m)] < 2 ^ k)

\* the quotient dm.q of a magnitude by 2^s rounded to nearest, ties to
\* even, and scaled back: lo are the bytes below the quotient's, sticky tells
\* a non-zero fraction behind the magnitude
roundQuotient(dm, lo, s, sticky) ==
    LET c  == magCmp(magNorm(lo \o dm.r), TwoTo(s - 1).mag)
        up == c > 0 \/ (c = 0 /\ (sticky \/ Head(dm.q) % 2 = 1))
    IN  [i \in 1..(s \div 8) |-> 0]
            \o magMulSmall(IF up THEN magAdd(dm.q, <<1>>) ELSE dm.q,
                           2 ^ (s % 8))

\* the magnitude m with its s > 0 lowest bits rounded away
roundBits(m, s, sticky) ==
    CHOOSE r \in {roundQuotient(dm, SubSeq(m, 1, s \div 8), s, sticky) :
                     dm \in {magDivMod(SubSeq(m, s \div 8 + 1, Len(m)),
                                       <<2 ^ (s % 8)>>)}} : TRUE

\* the magnitude m, followed by a non-zero fraction when sticky, rounded to
\* MantissaBits significant bits
roundToDouble(m, sticky) ==
    IF magBitLen(m) <= MantissaBits THEN m
    ELSE roundBits(m, magBitLen(m) - MantissaBits, sticky)

\* Number(x) for a bigint x
Number(x) == mkBig(x.neg, roundToDouble(x.mag, FALSE))

\* the bytes of fraction that give the quotient a / b its MantissaBits bits
\* and two more to round on
fractionBytes(a, b) ==
    LET need == MantissaBits + 2 + magBitLen(b.mag) - magBitLen(a.mag)
    IN  IF need <= 0 THEN 0 ELSE (need + 7) \div 8

\* a / b for two numbers of integer value
divideNumbers(a, b) ==
    IF b.mag = <<>>
    THEN [special |-> IF a.mag = <<>> THEN "NaN" ELSE "Infinity",
          neg |-> a.neg]
    ELSE IF a.mag = <<>> THEN BigInt(0)
    ELSE CHOOSE r \in
             {mkBig(a.neg # b.neg,
                    [i \in 1..(NumberFractionBytes - fractionBytes(a, b))
                        |-> 0]
                        \o roundToDouble(t.q, t.r # <<>>)) :
                 t \in {magDivMod([i \in 1..fractionBytes(a, b) |-> 0]
                                      \o a.mag, b.mag)}} : TRUE

\* Number(x) / Number(y)
numberDiv(x, y) ==
    CHOOSE r \in {divideNumbers(a, b) : a \in {Number(x)},
                                        b \in {Number(y)}} : TRUE

numberLt(x, y) == bigLt(x, y)

calculateSpotPrice(rxdReserve, tokenReserve) ==
    IF tokenReserve = BigInt(0) THEN BigInt(0)
    ELSE numberDiv(rxdReserve, tokenReserve)

\* get spotPrice() of each of these pools
SpotPrices ==
    [pool \in Pools |->
        calculateSpotPrice(pool.rxdAmount, pool.tokenAmount)]

spotPrice(pool) == SpotPrices[pool]

slippageExceeded(expected, actual, maxSlippage) ==
    [err |-> "SLIPPAGE_EXCEEDED", expected |-> expected, actual |-> actual,
     maxSlippage |-> maxSlippage]

\* the comparator of the sort in calculateRoute is negative on (a, b)
priceComesBefore(priceA, priceB, direction) ==
    IF direction = "buy" THEN numberLt(priceA, priceB)
    ELSE numberLt(priceB, priceA)

comesBefore(a, b, direction) ==
    priceComesBefore(spotPrice(a), spotPrice(b), direction)

\* Array.prototype.sort is stable: p, the last added, goes behind every pool
\* the comparator does not put behind it
insertAfter(sorted, p, n) ==
    SubSeq(sorted, 1, n) \o <<p>> \o SubSeq(sorted, n + 1, Len(sorted))

insertPool(sorted, p, direction) ==
    insertAfter(sorted, p,
                Cardinality({i \in 1..Len(sorted) :
                                ~comesBefore(p, sorted[i], direction)}))

\* a sort that orders pools of equal price by what the builder was last
\* asked: as added, or in reverse after a calculateRoute
RECURSIVE sortPoolsByLastCall(_, _)
sortPoolsByLastCall(ps, direction) ==
    IF ps = <<>> THEN <<>>
    ELSE IF trade.op = "calculateRoute"
    THEN insertPool(sortPoolsByLastCall(Tail(ps), direction), Head(ps),
                    direction)
    ELSE insertPool(sortPoolsByLastCall(SubSeq(ps, 1, Len(ps) - 1), direction),
                    ps[Len(ps)], direction)

RECURSIVE sortPools(_, _)
sortPools(ps, direction) ==
    IF ps = <<>> THEN <<>>
    ELSE insertPool(sortPools(SubSeq(ps, 1, Len(ps) - 1), direction),
                    ps[Len(ps)], direction)

\* calculatePoolAllocation giving a usable pool half of the remaining amount
calculatePoolAllocationHalf(pool, maxAmount, direction) ==
    IF direction = "buy"
    THEN IF bigLe(bigSub(pool.tokenAmount, BigInt(1)), BigInt(0))
         THEN BigInt(0) ELSE bigDiv(maxAmount, BigInt(2))
    ELSE IF bigLe(bigSub(pool.rxdAmount, BigInt(1)), BigInt(0))
         THEN BigInt(0) ELSE bigDiv(maxAmount, BigInt(2))

calculatePoolAllocation(pool, maxAmount, direction) ==
    IF direction = "buy"
    THEN IF bigLe(bigSub(pool.tokenAmount, BigInt(1)), BigInt(0))
         THEN BigInt(0) ELSE maxAmount
    ELSE IF bigLe(bigSub(pool.rxdAmount, BigInt(1)), BigInt(0))
         THEN BigInt(0) ELSE maxAmount

\* the loop of calculateRoute over the sorted pools, from the accumulators acc
RECURSIVE distribute(_, _, _)
distribute(sortedPools, direction, acc) ==
    IF sortedPools = <<>> \/ bigLe(acc.remainingAmount, BigInt(0)) THEN Ok(acc)
    ELSE
    LET pool == Head(sortedPools)
        amountForPool ==
            calculatePoolAllocation(pool, acc.remainingAmount, direction)
        rest(a) == distribute(Tail(sortedPools), direction, a)
        push(result) ==
            LET amountOut == IF direction = "buy" THEN result.val.tokensOut
                             ELSE result.val.rxdOut
            IN  IF Threw(result) THEN result
                ELSE CHOOSE r \in {rest(a) : a \in {
                        [steps |-> Append(acc.steps,
                                      [poolUtxo |-> pool.utxo,
                                       amountIn |-> amountForPool,
                                       amountOut |-> amountOut,
                                       newState |-> result.val.newState]),
                         remainingAmount |->
                             bigSub(acc.remainingAmount, amountForPool),
                         totalAmountOut |->
                             bigAdd(acc.totalAmountOut, amountOut),
                         totalFee |-> bigAdd(acc.totalFee, result.val.fee)]}} :
                            TRUE
    IN  IF bigLe(amountForPool, BigInt(0)) THEN rest(acc)
        ELSE IF direction = "buy"
        THEN CHOOSE r \in {push(q) :
                          q \in {getTokensForRxd(pool, amountForPool)}} : TRUE
        ELSE CHOOSE r \in {push(q) :
                          q \in {getRxdForTokens(pool, amountForPool)}} : TRUE

\* calculateRoute with its three checks switched on or off
calculateRouteChecking(builderPools, params, empty, noSteps, slippage) ==
    IF empty /\ Len(builderPools) = 0
    THEN [err |-> "POOL_NOT_FOUND",
          message |-> "No pools available for trading"]
    ELSE
    LET finish(walk) ==
            LET totalAmountIn ==
                    bigSub(params.amountIn, walk.val.remainingAmount)
            IN  IF Threw(walk) THEN walk
                ELSE IF noSteps /\ Len(walk.val.steps) = 0
                THEN insufficientLiquidity(params.amountIn, BigInt(0))
                ELSE IF slippage
                        /\ bigLt(walk.val.totalAmountOut, params.minAmountOut)
                THEN slippageExceeded(params.minAmountOut,
                         walk.val.totalAmountOut,
                         divide(bigMul(bigSub(params.minAmountOut,
                                              walk.val.totalAmountOut),
                                       BigInt(100)),
                                params.minAmountOut))
                ELSE Ok([steps |-> walk.val.steps,
                         totalAmountIn |-> totalAmountIn,
                         totalAmountOut |-> walk.val.totalAmountOut,
                         totalFee |-> walk.val.totalFee,
                         averagePrice |->
                             IF params.direction = "buy"
                             THEN numberDiv(totalAmountIn,
                                            walk.val.totalAmountOut)
                             ELSE numberDiv(walk.val.totalAmountOut,
                                            totalAmountIn)])
    IN  CHOOSE r \in {finish(w) : w \in {
                distribute(sortPools(builderPools, params.direction),
                           params.direction,
                           [steps |-> <<>>,
                            remainingAmount |-> params.amountIn,
                            totalAmountOut |-> BigInt(0),
                            totalFee |-> BigInt(0)])}} : TRUE

\* calculateRoute without the test for an empty pool list
calculateRouteNoEmptyCheck(builderPools, params) ==
    calculateRouteChecking(builderPools, params, FALSE, TRUE, TRUE)

\* calculateRoute without the test for a walk that made no step
calculateRouteNoStepsCheck(builderPools, params) ==
    calculateRouteChecking(builderPools, params, TRUE, FALSE, TRUE)

\* calculateRoute without the slippage test
calculateRouteNoSlippageCheck(builderPools, params) ==
    calculateRouteChecking(builderPools, params, TRUE, TRUE, FALSE)

calculateRoute(builderPools, params) ==
    IF Len(builderPools) = 0
    THEN [err |-> "POOL_NOT_FOUND",
          message |-> "No pools available for trading"]
    ELSE
    LET finish(walk) ==
            LET totalAmountIn ==
                    bigSub(params.amountIn, walk.val.remainingAmount)
            IN  IF Threw(walk) THEN walk
                ELSE IF Len(walk.val.steps) = 0
                THEN insufficientLiquidity(params.amountIn, BigInt(0))
                ELSE IF bigLt(walk.val.totalAmountOut, params.minAmountOut)
                THEN slippageExceeded(params.minAmountOut,
                         walk.val.totalAmountOut,
                         divide(bigMul(bigSub(params.minAmountOut,
                                              walk.val.totalAmountOut),
                                       BigInt(100)),
                                params.minAmountOut))
                ELSE Ok([steps |-> walk.val.steps,
                         totalAmountIn |-> totalAmountIn,
                         totalAmountOut |-> walk.val.totalAmountOut,
                         totalFee |-> walk.val.totalFee,
                         averagePrice |->
                             IF params.direction = "buy"
                             THEN numberDiv(totalAmountIn,
                                            walk.val.totalAmountOut)
                             ELSE numberDiv(walk.val.totalAmountOut,
                                            totalAmountIn)])
    IN  CHOOSE r \in {finish(w) : w \in {
                distribute(sortPools(builderPools, params.direction),
                           params.direction,
                           [steps |-> <<>>,
                            remainingAmount |-> params.amountIn,
                            totalAmountOut |-> BigInt(0),
                            totalFee |-> BigInt(0)])}} : TRUE

RECURSIVE sumValues(_)
sumValues(utxos) ==
    IF utxos = <<>> THEN BigInt(0)
    ELSE bigAdd(Head(utxos).value, sumValues(Tail(utxos)))

\* buildTradeTransaction pushing the pool outputs in the reverse order of the
\* steps
buildTradeTransactionReversed(funding, route, params) ==
    LET n == Len(route.steps)
        newScript == [i \in 1..n |->
                         updateScriptState(route.steps[i].poolUtxo.scriptPubKey,
                                           route.steps[i].newState.tokenAmount)]
        failed == {i \in 1..n : Threw(newScript[i])}
        poolOutputs == [i \in 1..n |->
                           Output(route.steps[n + 1 - i].newState.rxdAmount,
                                  newScript[n + 1 - i].val)]
        receiverOutput ==
            Output(IF params.direction = "sell" THEN route.totalAmountOut
                   ELSE DUST_LIMIT, params.receiver)
        changeAmount ==
            bigSub(bigAdd(bigSub(sumValues(funding),
                                 IF params.direction = "buy"
                                 THEN route.totalAmountIn ELSE BigInt(0)),
                          IF params.direction = "sell"
                          THEN route.totalAmountOut ELSE BigInt(0)),
                   BigInt(1000))
    IN  IF failed # {}
        THEN newScript[CHOOSE i \in failed : \A j \in failed : i <= j]
        ELSE Ok([inputs |-> [i \in 1..n |-> route.steps[i].poolUtxo] \o funding,
                 outputs |-> poolOutputs \o <<receiverOutput>>
                     \o (IF bigGt(changeAmount, DUST_LIMIT)
                         THEN <<Output(changeAmount, params.receiver)>>
                         ELSE <<>>)])

buildTradeTransaction(funding, route, params) ==
    LET n == Len(route.steps)
        newScript == [i \in 1..n |->
                         updateScriptState(route.steps[i].poolUtxo.scriptPubKey,
                                           route.steps[i].newState.tokenAmount)]
        failed == {i \in 1..n : Threw(newScript[i])}
        poolOutputs == [i \in 1..n |->
                           Output(route.steps[i].newState.rxdAmount,
                                  newScript[i].val)]
        receiverOutput ==
            Output(IF params.direction = "sell" THEN route.totalAmountOut
                   ELSE DUST_LIMIT, params.receiver)
        totalInputValue == sumValues(funding)
        usedForTrade == IF params.direction = "buy" THEN route.totalAmountIn
                        ELSE BigInt(0)
        receivedFromTrade == IF params.direction = "sell"
                             THEN route.totalAmountOut ELSE BigInt(0)
        minerFee == BigInt(1000)
        changeAmount == bigSub(bigAdd(bigSub(totalInputValue, usedForTrade),
                                      receivedFromTrade), minerFee)
    IN  IF failed # {}
        THEN newScript[CHOOSE i \in failed : \A j \in failed : i <= j]
        ELSE Ok([inputs |-> [i \in 1..n |-> route.steps[i].poolUtxo] \o funding,
                 outputs |-> poolOutputs \o <<receiverOutput>>
                     \o (IF bigGt(changeAmount, DUST_LIMIT)
                         THEN <<Output(changeAmount, params.receiver)>>
                         ELSE <<>>)])

\* the priceImpact of the result, a Number computed from the spot prices of
\* pools[0] and of the last step's newState, is not part of the model
getQuote(builderPools, params) ==
    LET quote(route) ==
            IF Threw(route) THEN route
            ELSE Ok([amountOut |-> route.val.totalAmountOut,
                     fee |-> route.val.totalFee,
                     newPoolState |->
                         route.val.steps[Len(route.val.steps)].newState])
    IN  CHOOSE r \in {quote(route) :
                      route \in {calculateRoute(builderPools, params)}} : TRUE

-----------------------------------------------------------------------------
(* a TradeBuilder: pools and funding are added, routes are calculated and   *)
(* transactions built from them                                             *)

\* the builder is given at most MaxPools pools and MaxFundings funding UTXOs
MaxPools == 2
MaxFundings == 1

FundingUtxos == {UTXO("f", 0, BigInt(2000), Receiver)}

SwapParams ==
    [direction : {"buy", "sell"},
     amountIn : {BigInt(0), BigInt(100), BigInt(20000000)},
     minAmountOut : {BigInt(1), BigInt(95)},
     receiver : {Receiver}]

RouterInit ==
    /\ NoMath
    /\ NoCodec
    /\ NoRouter

AddPool ==
    /\ Len(pools) < MaxPools
    /\ \E pool \in Pools : pools' = Append(pools, pool)
    /\ trade' = [op |-> "addPool"]
    /\ UNCHANGED <<fundingUtxos, mathVars, codecVars>>

AddPools ==
    /\ Len(pools) + 2 <= MaxPools
    /\ \E p \in Pools, q \in Pools : pools' = pools \o <<p, q>>
    /\ trade' = [op |-> "addPools"]
    /\ UNCHANGED <<fundingUtxos, mathVars, codecVars>>

AddFunding ==
    /\ Len(fundingUtxos) < MaxFundings
    /\ \E utxo \in FundingUtxos : fundingUtxos' = Append(fundingUtxos, utxo)
    /\ trade' = [op |-> "addFunding"]
    /\ UNCHANGED <<pools, mathVars, codecVars>>

AddFundings ==
    /\ \E utxos \in {<<>>} \cup {<<u>> : u \in FundingUtxos} :
          /\ Len(fundingUtxos) + Len(utxos) <= MaxFundings
          /\ fundingUtxos' = fundingUtxos \o utxos
    /\ trade' = [op |-> "addFundings"]
    /\ UNCHANGED <<pools, mathVars, codecVars>>

Clear ==
    /\ pools' = <<>>
    /\ fundingUtxos' = <<>>
    /\ trade' = [op |-> "clear"]
    /\ UNCHANGED <<mathVars, codecVars>>

\* the last call changed the builder, or it is new: a route or a quote is asked
\* for on every builder the calls above can make, and is followed only by a
\* repeated calculateRoute or by buildTradeTransaction
BuilderChanged ==
    trade.op \in {"none", "addPool", "addPools", "addFunding", "addFundings",
                  "clear"}

\* calculateRoute sorting this.pools itself instead of a copy
CalculateRouteSortingInPlace ==
    /\ BuilderChanged
    /\ \E params \in SwapParams :
          /\ trade' = [op |-> "calculateRoute", params |-> params,
                       result |-> calculateRoute(pools, params)]
          /\ pools' = sortPools(pools, params.direction)
    /\ UNCHANGED <<fundingUtxos, mathVars, codecVars>>

CalculateRoute ==
    /\ BuilderChanged
    /\ \E params \in SwapParams :
          trade' = [op |-> "calculateRoute", params |-> params,
                    result |-> calculateRoute(pools, params)]
    /\ UNCHANGED <<pools, fundingUtxos, mathVars, codecVars>>

\* calculateRoute is called once more with the parameters of the call before
CalculateRouteAgain ==
    /\ trade.op = "calculateRoute"
    /\ trade' = [op |-> "calculateRouteAgain", params |-> trade.params,
                 first |-> trade.result,
                 result |-> calculateRoute(pools, trade.params)]
    /\ UNCHANGED <<pools, fundingUtxos, mathVars, codecVars>>

\* the route calculateRoute has just returned is built into a transaction
BuildTradeTransaction ==
    /\ trade.op = "calculateRoute"
    /\ ~Threw(trade.result)
    /\ trade' = [op |-> "buildTradeTransaction", route |-> trade.result.val,
                 params |-> trade.params,
                 result |-> buildTradeTransaction(fundingUtxos,
                                trade.result.val, trade.params)]
    /\ UNCHANGED <<pools, fundingUtxos, mathVars, codecVars>>

\* a route made by the caller of buildTradeTransaction: one step on every
\* pool of the builder, in the builder's order, each for the same amount
RECURSIVE stepOnEach(_, _, _, _)
stepOnEach(builderPools, direction, amount, route) ==
    IF builderPools = <<>> THEN route
    ELSE LET pool == Head(builderPools)
             push(q) ==
                 IF Threw(q) THEN route
                 ELSE [steps |-> Append(route.steps,
                                  [poolUtxo |-> pool.utxo,
                                   amountIn |-> amount,
                                   amountOut |-> IF direction = "buy"
                                                 THEN q.val.tokensOut
                                                 ELSE q.val.rxdOut,
                                   newState |-> q.val.newState]),
                       totalAmountIn |-> bigAdd(route.totalAmountIn, amount),
                       totalAmountOut |->
                           bigAdd(route.totalAmountOut,
                                  IF direction = "buy" THEN q.val.tokensOut
                                  ELSE q.val.rxdOut),
                       totalFee |-> bigAdd(route.totalFee, q.val.fee),
                       averagePrice |-> BigInt(0)]
         IN  stepOnEach(Tail(builderPools), direction, amount,
                 CHOOSE r \in {push(q) : q \in {
                     IF direction = "buy"
                     THEN getTokensForRxd(pool, amount)
                     ELSE getRxdForTokens(pool, amount)}} : TRUE)

\* buildTradeTransaction is given a route with a step on every pool
BuildSplitTradeTransaction ==
    /\ Len(pools) = MaxPools
    /\ BuilderChanged
    /\ \E direction \in {"buy", "sell"} :
       \E route \in {stepOnEach(pools, direction, BigInt(100),
                         [steps |-> <<>>, totalAmountIn |-> BigInt(0),
                          totalAmountOut |-> BigInt(0),
                          totalFee |-> BigInt(0),
                          averagePrice |-> BigInt(0)])} :
       \E params \in {[direction |-> direction,
                       amountIn |-> route.totalAmountIn,
                       minAmountOut |-> BigInt(1), receiver |-> Receiver]} :
           trade' = [op |-> "buildTradeTransaction", route |-> route,
                     params |-> params,
                     result |-> buildTradeTransaction(fundingUtxos, route,
                                                      params)]
    /\ UNCHANGED <<pools, fundingUtxos, mathVars, codecVars>>

\* a pool of the builder is asked whether it can take a trade of 0 or of 100
HasLiquidity ==
    /\ BuilderChanged
    /\ \E i \in 1..Len(pools), direction \in {"buy", "sell"},
          amount \in {BigInt(0), BigInt(100)} :
           trade' = [op |-> "hasLiquidity", pool |-> pools[i],
                     direction |-> direction, amount |-> amount,
                     result |-> hasLiquidity(pools[i], amount, direction)]
    /\ UNCHANGED <<pools, fundingUtxos, mathVars, codecVars>>

GetQuote ==
    /\ BuilderChanged
    /\ \E params \in {p \in SwapParams : /\ p.amountIn = BigInt(100)
                                         /\ p.minAmountOut = BigInt(1)} :
           trade' = [op |-> "getQuote", params |-> params,
                     result |-> getQuote(pools, params)]
    /\ UNCHANGED <<pools, fundingUtxos, mathVars, codecVars>>

RouterNext ==
    \/ AddPool
    \/ AddPools
    \/ AddFunding
    \/ AddFundings
    \/ Clear
    \/ CalculateRoute
    \/ CalculateRouteAgain
    \/ BuildTradeTransaction
    \/ BuildSplitTradeTransaction
    \/ HasLiquidity
    \/ GetQuote

RouterSpec == RouterInit /\ [][RouterNext]_vars

\* the step passes verifyKInvariant on the state of its pool before the trade,
\* its newState and the fee of its quote
StepVerifies(step, direction) ==
    \E i \in 1..Len(pools) :
        /\ pools[i].utxo = step.poolUtxo
        /\ LET quote == IF direction = "buy"
                        THEN getTokensForRxd(pools[i], step.amountIn)
                        ELSE getRxdForTokens(pools[i], step.amountIn)
               verified == verifyKInvariant(pools[i].rxdAmount,
                               pools[i].tokenAmount, step.newState.rxdAmount,
                               step.newState.tokenAmount, quote.val.fee)
           IN  /\ ~Threw(quote)
               /\ ~Threw(verified)
               /\ verified.val

(* C3 *)

\* C3: a route calculateRoute returns, and a route buildTradeTransaction
\* returns inputs and outputs for, has no step that fails verifyKInvariant;
\* with such a step both functions fail instead.
C3_NoRouteFailsInvariant ==
    /\ (trade.op = "calculateRoute" /\ ~Threw(trade.result))
          => \A i \in 1..Len(trade.result.val.steps) :
                 StepVerifies(trade.result.val.steps[i], trade.params.direction)
    /\ (trade.op = "buildTradeTransaction" /\ ~Threw(trade.result))
          => \A i \in 1..Len(trade.route.steps) :
                 StepVerifies(trade.route.steps[i], trade.params.direction)

\* the pools of the routing scenario: (10000, 1000) and (5000, 500)
PoolA == fromUtxo(PoolUtxo("a", 10000, 1000)).val
PoolB == fromUtxo(PoolUtxo("b", 5000, 500)).val
PoolH == fromUtxo(PoolUtxo("h", 134217729, 134217728)).val
PoolI == fromUtxo(PoolUtxo("i", 134217730, 134217729)).val

\* one step on the pool for the whole amount would leave it less than one
\* unit of the side the trade depletes
ExceedsCapacity(pool, amount, direction) ==
    LET quote == IF direction = "buy" THEN getTokensForRxd(pool, amount)
                 ELSE getRxdForTokens(pool, amount)
    IN  /\ ~Threw(quote)
        /\ IF direction = "buy"
           THEN bigLt(quote.val.newState.tokenAmount, BigInt(1))
           ELSE bigLt(quote.val.newState.rxdAmount, BigInt(1))

RouteCalculated == trade.op = "calculateRoute"
RouteReturned == RouteCalculated /\ ~Threw(trade.result)

(* C11 *)

\* C11: with the pools (10000, 1000) and (5000, 500) added in that order and
\* a buy request larger than what the first pool can fill in one step,
\* calculateRoute returns a route of two steps, the first on the pool that
\* was added first.
C11_SplitsAcrossPools ==
    (/\ RouteCalculated
     /\ pools = <<PoolA, PoolB>>
     /\ trade.params.direction = "buy"
     /\ ExceedsCapacity(PoolA, trade.params.amountIn, "buy"))
        => /\ ~Threw(trade.result)
           /\ Len(trade.result.val.steps) = 2
           /\ trade.result.val.steps[1].poolUtxo = PoolA.utxo

(* C12 *)

\* C12: in a route calculateRoute returns, every step of a buy leaves its
\* pool at least 1 token and every step of a sell leaves it at least 1 RXD.
C12_StepsLeaveResidual ==
    RouteReturned
        => \A i \in 1..Len(trade.result.val.steps) :
               LET newState == trade.result.val.steps[i].newState
               IN  IF trade.params.direction = "buy"
                   THEN bigGe(newState.tokenAmount, BigInt(1))
                   ELSE bigGe(newState.rxdAmount, BigInt(1))

RECURSIVE bigSum(_)
bigSum(amounts) ==
    IF amounts = <<>> THEN BigInt(0)
    ELSE bigAdd(Head(amounts), bigSum(Tail(amounts)))

\* the pool is skipped by the walk: it is allocated nothing of the amount
Unusable(pool, params) ==
    bigLe(calculatePoolAllocation(pool, params.amountIn, params.direction),
          BigInt(0))

\* the fee of the quote the step was made from
StepFee(step, direction) ==
    LET pool == CHOOSE q \in {pools[i] : i \in 1..Len(pools)} :
                    q.utxo = step.poolUtxo
    IN  IF direction = "buy" THEN getTokensForRxd(pool, step.amountIn).val.fee
        ELSE getRxdForTokens(pool, step.amountIn).val.fee

(* C13 *)

\* C13: whenever the builder holds no pools, after any sequence of addPool,
\* addPools, addFunding, addFundings and clear, calculateRoute fails with
\* POOL_NOT_FOUND whatever the swap parameters are.
C13_NoPoolsPoolNotFound ==
    (RouteCalculated /\ pools = <<>>) => trade.result.err = "POOL_NOT_FOUND"

C13_Witness ==
    /\ RouteCalculated
    /\ pools = <<>>
    /\ fundingUtxos # <<>>
    /\ trade.params.amountIn = BigInt(0)
    /\ trade.result.err = "POOL_NOT_FOUND"

(* C14 *)

\* C14: with at least one pool, calculateRoute fails with
\* INSUFFICIENT_LIQUIDITY exactly when the walk makes no step, that is when
\* nothing is asked for or every pool is skipped; it returns no route then.
C14_InsufficientIffNoSteps ==
    (RouteCalculated /\ pools # <<>>)
        => /\ trade.result.err = "INSUFFICIENT_LIQUIDITY"
                <=> \A i \in 1..Len(pools) : Unusable(pools[i], trade.params)
           /\ ~Threw(trade.result) => Len(trade.result.val.steps) > 0

C14_Witness ==
    /\ RouteCalculated
    /\ Len(pools) = 2
    /\ trade.params.amountIn = BigInt(100)
    /\ trade.result.err = "INSUFFICIENT_LIQUIDITY"

(* C15 *)

\* C15: a route calculateRoute returns has totalAmountOut >= minAmountOut;
\* when steps exist and their outputs sum to less than minAmountOut it fails
\* with SLIPPAGE_EXCEEDED carrying minAmountOut and that sum.
C15_SlippageChecked ==
    /\ RouteReturned
          => bigGe(trade.result.val.totalAmountOut, trade.params.minAmountOut)
    /\ (RouteCalculated /\ pools # <<>>)
          => LET walk == distribute(sortPools(pools, trade.params.direction),
                             trade.params.direction,
                             [steps |-> <<>>,
                              remainingAmount |-> trade.params.amountIn,
                              totalAmountOut |-> BigInt(0),
                              totalFee |-> BigInt(0)])
                 summed == bigSum([i \in 1..Len(walk.val.steps) |->
                                      walk.val.steps[i].amountOut])
             IN  (/\ ~Threw(walk)
                  /\ Len(walk.val.steps) > 0
                  /\ bigLt(summed, trade.params.minAmountOut))
                     => /\ trade.result.err = "SLIPPAGE_EXCEEDED"
                        /\ trade.result.expected = trade.params.minAmountOut
                        /\ trade.result.actual = summed

C15_Witness ==
    /\ RouteCalculated
    /\ trade.result.err = "SLIPPAGE_EXCEEDED"
    /\ trade.result.expected = BigInt(95)
    /\ trade.result.actual = BigInt(10)

(* C18 *)

\* C18: a route calculateRoute returns covers the whole request:
\* totalAmountIn is the amountIn asked for, and totalAmountIn, totalAmountOut
\* and totalFee are the sums of the steps' amountIn, amountOut and fee.
C18_RouteCoversRequest ==
    RouteReturned
        => LET route == trade.result.val
               n == Len(route.steps)
           IN  /\ n > 0
               /\ route.totalAmountIn = trade.params.amountIn
               /\ route.totalAmountIn =
                      bigSum([i \in 1..n |-> route.steps[i].amountIn])
               /\ route.totalAmountOut =
                      bigSum([i \in 1..n |-> route.steps[i].amountOut])
               /\ route.totalFee =
                      bigSum([i \in 1..n |->
                                 StepFee(route.steps[i],
                                         trade.params.direction)])

C18_Witness ==
    /\ RouteReturned
    /\ Len(pools) = 2
    /\ trade.params.direction = "sell"
    /\ trade.result.val.totalAmountIn = BigInt(100)
    /\ trade.result.val.totalFee = BigInt(2)

(* C16 *)

PriceBelow(p, q) ==
    bigLt(bigMul(p.rxdAmount, q.tokenAmount), bigMul(q.rxdAmount, p.tokenAmount))

\* pools[j] is to be visited before pools[i]: its price is better for the
\* direction, or the same and it was added earlier
VisitedBefore(j, i, direction) ==
    \/ IF direction = "buy" THEN PriceBelow(pools[j], pools[i])
       ELSE PriceBelow(pools[i], pools[j])
    \/ /\ ~PriceBelow(pools[j], pools[i])
       /\ ~PriceBelow(pools[i], pools[j])
       /\ j < i

(* C17 *)

\* the pools in the order of the price rule: pools[i] stands behind exactly
\* the pools that are to be visited before it
PriceOrder(direction) ==
    [k \in 1..Len(pools) |->
        pools[CHOOSE i \in 1..Len(pools) :
                  k = 1 + Cardinality({j \in 1..Len(pools) :
                                          VisitedBefore(j, i, direction)})]]

\* C17: calculateRoute visits the pools by ascending spot price
\* rxdReserve / tokenReserve for a buy and descending for a sell, pools of
\* equal price in the order they were added, and the steps of a returned
\* route are on the visited pools that were not skipped, in that order.
C17_VisitsInPriceOrder ==
    RouteCalculated
        => LET direction == trade.params.direction
               Used(pool) == ~Unusable(pool, trade.params)
               used == SelectSeq(PriceOrder(direction), Used)
           IN  /\ sortPools(pools, direction) = PriceOrder(direction)
               /\ ~Threw(trade.result)
                     => LET steps == trade.result.val.steps
                        IN  /\ Len(steps) <= Len(used)
                            /\ \A k \in 1..Len(steps) :
                                   steps[k].poolUtxo = used[k].utxo

(* C19 *)

\* the three ways a script fails to parse, as conditions on its bytes
MissingSeparator(s) == \A i \in 1..Len(s) : s[i] # OP_STATESEPARATOR

StateTooShort(s) ==
    /\ ~MissingSeparator(s)
    /\ Len(s) - (lastIndexOf(s, OP_STATESEPARATOR) + 1) < 8

OwnerHashNotFound(s) ==
    /\ ~MissingSeparator(s)
    /\ \A i \in 1..(lastIndexOf(s, OP_STATESEPARATOR) - 1) :
           ~(s[i] = OP_DUP /\ s[i + 1] = OP_HASH160)

FailureKinds(s) ==
    {k \in {"MissingSeparator", "StateTooShort", "OwnerHashNotFound"} :
        \/ k = "MissingSeparator" /\ MissingSeparator(s)
        \/ k = "StateTooShort" /\ StateTooShort(s)
        \/ k = "OwnerHashNotFound" /\ OwnerHashNotFound(s)}

\* C19: parsePoolScript fails on a script with no 0xBD byte, on one with
\* fewer than 8 bytes behind the last 0xBD and on one whose code portion
\* lacks the withdrawal-branch pattern, and the error code alone tells the
\* three apart: two scripts that each fail in one way, with the same error
\* code, fail in the same way.
C19_ErrorKindsDistinguishable ==
    (codec.op = "parsePoolScript" /\ FailureKinds(codec.script) # {})
        => /\ Threw(codec.result)
           /\ \A other \in RawScripts :
                  (/\ Cardinality(FailureKinds(codec.script)) = 1
                   /\ Cardinality(FailureKinds(other)) = 1
                   /\ parsePoolScript(other).err = codec.result.err)
                      => FailureKinds(other) = FailureKinds(codec.script)

(* C20 *)

\* the value of bytes read as an unsigned little-endian number
littleEndian(bytes) == mkBig(FALSE, magNorm(bytes))

\* C20: buildPoolScript fails with INVALID_SCRIPT and returns no bytes for
\* every owner hash that is not 20 bytes long; for a 20-byte hash and a token
\* amount in the signed 64-bit range it returns a code portion, the byte
\* 0xBD and the amount in 8 bytes, little-endian two's complement, and the
\* code portion is the same for every amount built with that hash.
C20_BuildFailsOrLaysOut ==
    codec.op = "buildPoolScript"
        => LET h == codec.ownerPkh
               t == codec.tokenAmount
               r == codec.result
           IN  /\ Len(h) # 20
                     => /\ DOMAIN r = {"err", "message"}
                        /\ r.err = "INVALID_SCRIPT"
               /\ (Len(h) = 20 /\ InInt64(t))
                     => /\ ~Threw(r)
                        /\ Len(r.val) > 9
                        /\ r.val[Len(r.val) - 8] = OP_STATESEPARATOR
                        /\ littleEndian(SubSeq(r.val, Len(r.val) - 7,
                                               Len(r.val)))
                               = (IF t.neg THEN bigAdd(t, TwoTo(64)) ELSE t)
                        /\ \A b \in BuiltScripts :
                               b.h = h => SubSeq(b.s, 1, Len(b.s) - 9)
                                              = SubSeq(r.val, 1,
                                                       Len(r.val) - 9)

\* a script is at hand and a build with a 19-byte hash has just failed
C20_Witness ==
    /\ codec.op = "buildPoolScript"
    /\ Len(codec.ownerPkh) = 19
    /\ Threw(codec.result)
    /\ poolScript \in {b.s : b \in BuiltScripts}

(* C21 *)

\* C21: for positive reserves and 0 < tokensOut < tokenReserve, when
\* calculateRxdInForExactTokensOut returns rxdIn, calculateTokensOut on the
\* same reserves and rxdIn returns at least tokensOut.
C21_InverseThenForwardCovers ==
    (/\ Len(log) = 2
     /\ log[1].op = "calculateRxdInForExactTokensOut"
     /\ PositiveReserves(log[1])
     /\ bigGt(log[1].amountIn, BigInt(0))
     /\ bigLt(log[1].amountIn, log[1].tokenReserve))
        => /\ ~Threw(log[2].result)
           /\ bigGe(log[2].result.val.tokensOut, log[1].amountIn)

\* 100 tokens out of the pool (10000, 1000) cost 1116, which buys 101
C21_Witness ==
    /\ Len(log) = 2
    /\ log[1].op = "calculateRxdInForExactTokensOut"
    /\ log[1].rxdReserve = BigInt(10000)
    /\ log[1].tokenReserve = BigInt(1000)
    /\ log[1].amountIn = BigInt(100)
    /\ log[1].result.val.rxdIn = BigInt(1116)
    /\ log[2].result.val.tokensOut = BigInt(101)

(* C22 *)

\* C22: every sell quote calculateRxdOut returns on positive reserves pays
\* out strictly less than the gross amount
\* rxdReserve - floor(K / (tokenReserve + tokensIn)): its fee is at least 1.
C22_SellFeeAtLeastOne ==
    \A i \in 1..Len(log) :
        LET c == log[i]
            gross == bigSub(c.rxdReserve,
                            bigDiv(bigMul(c.rxdReserve, c.tokenReserve),
                                   bigAdd(c.tokenReserve, c.amountIn)))
        IN  (/\ c.op = "calculateRxdOut"
             /\ PositiveReserves(c)
             /\ ~Threw(c.result))
                => /\ bigLt(c.result.val.rxdOut, gross)
                   /\ bigGe(c.result.val.fee, BigInt(1))

(* C23 *)

\* C23: calculateRoute emits no step, in either direction, on a pool whose
\* RXD reserve is below the dust limit 546 or whose token reserve is below 1.
C23_NoStepOnWithdrawalOnlyPool ==
    RouteReturned
        => \A k \in 1..Len(trade.result.val.steps) :
               \A i \in 1..Len(pools) :
                   pools[i].utxo = trade.result.val.steps[k].poolUtxo
                       => /\ bigGe(pools[i].rxdAmount, DUST_LIMIT)
                          /\ bigGe(pools[i].tokenAmount, BigInt(1))

(* C24 *)

\* C24: the fee in every result of getTokensForRxd and getRxdForTokens is the
\* fee of the change of the RXD reserve it reports, on positive reserves:
\* floor(|newState.rxdAmount - rxdReserve| * 3 / 1000).
C24_FeeOfReserveChange ==
    \A i \in 1..Len(log) :
        LET c == log[i]
        IN  (c.op \in {"getTokensForRxd", "getRxdForTokens"}
             /\ PositiveReserves(c)
             /\ ~Threw(c.result))
                => c.result.val.fee
                       = bigDiv(bigMul(abs(bigSub(c.result.val.newState.rxdAmount,
                                                  c.rxdReserve)),
                                       BigInt(3)),
                                BigInt(1000))

(* C25 *)

\* the product a * b has an operand above 2^62 or a value above 2^63 - 1
ProductOverflows(a, b) ==
    \/ bigGt(a, MAX_SAFE_VALUE)
    \/ bigGt(b, MAX_SAFE_VALUE)
    \/ bigGt(bigMul(a, b), MAX_INT64)

\* C25: verifyKInvariant fails with Overflow, and returns no boolean, whenever
\* rxdIn * tokenIn or (rxdOut - fee) * tokenOut has an operand above 2^62 or a
\* value above 2^63 - 1.
C25_VerifyOverflowFails ==
    \A i \in 1..Len(log) :
        LET c == log[i]
        IN  (/\ c.op = "verifyKInvariant"
             /\ \/ ProductOverflows(c.rxdIn, c.tokenIn)
                \/ ProductOverflows(bigSub(c.rxdOut, c.fee), c.tokenOut))
                => c.result.err = "OVERFLOW"

(* C26 *)

\* buildTradeTransaction has returned a transaction
TransactionBuilt == trade.op = "buildTradeTransaction" /\ ~Threw(trade.result)

\* C26: in a transaction buildTradeTransaction returns, input i is the pool
\* UTXO of step i and output i carries the new RXD reserve of step i and that
\* pool's script updated to the new token reserve; the funding inputs and the
\* receiver and change outputs come after all pool entries.
C26_PoolEntriesByPosition ==
    TransactionBuilt =>
        LET steps == trade.route.steps
            n == Len(steps)
            tx == trade.result.val
        IN  /\ Len(tx.inputs) = n + Len(fundingUtxos)
            /\ Len(tx.outputs) \in {n + 1, n + 2}
            /\ \A i \in 1..n :
                   /\ tx.inputs[i] = steps[i].poolUtxo
                   /\ tx.outputs[i].value = steps[i].newState.rxdAmount
                   /\ tx.outputs[i].scriptPubKey
                          = updateScriptState(steps[i].poolUtxo.scriptPubKey,
                                steps[i].newState.tokenAmount).val
            /\ \A j \in 1..Len(fundingUtxos) : tx.inputs[n + j] = fundingUtxos[j]
            /\ \A j \in (n + 1)..Len(tx.outputs) :
                   tx.outputs[j].scriptPubKey = trade.params.receiver

\* a transaction over two steps on different pools, with a funding input and
\* a change output
C26_Witness ==
    /\ TransactionBuilt
    /\ Len(trade.route.steps) = 2
    /\ trade.route.steps[1].newState # trade.route.steps[2].newState
    /\ Len(trade.result.val.inputs) = 3
    /\ Len(trade.result.val.outputs) = 4

(* C27 *)

\* the calls that quote, route or build a transaction
QuotingOps ==
    {"hasLiquidity", "calculateRoute", "calculateRouteAgain", "getQuote",
     "buildTradeTransaction"}

\* C27: hasLiquidity (and through it getTokensForRxd and getRxdForTokens),
\* calculateRoute, getQuote and buildTradeTransaction leave the pools and the
\* funding UTXOs of the builder, and every field of every pool, as they were.
C27_QuotingLeavesBuilder ==
    [][trade'.op \in QuotingOps
          => (pools' = pools /\ fundingUtxos' = fundingUtxos)]_vars

\* a route was returned over two pools the builder holds in another order
\* than the order of the walk
C27_Witness ==
    /\ trade.op = "calculateRoute"
    /\ ~Threw(trade.result)
    /\ Len(pools) = 2
    /\ sortPools(pools, trade.params.direction) # pools
    /\ fundingUtxos # <<>>

(* C28 *)

\* C28: whenever parsePoolScript succeeds on s, the owner hash it returns has
\* exactly 20 bytes and buildPoolScript on that hash and the parsed token
\* reserve returns s byte for byte; on every other input it fails with a
\* layout error.
C28_ParsedScriptsRebuild ==
    codec.op = "parsePoolScript" =>
        IF Threw(codec.result)
        THEN codec.result.err \in {"INVALID_SCRIPT", "INVALID_STATE"}
        ELSE /\ Len(codec.result.val.ownerPkh) = OWNER_PKH_SIZE
             /\ buildPoolScript(codec.result.val.ownerPkh,
                                codec.result.val.state.tokenAmount)
                    = Ok(codec.script)

(* C29 *)

\* the number a script interpreter reads from a pushed payload: little-endian
\* magnitude, the top bit of the last byte is the sign
scriptNum(payload) ==
    LET top == payload[Len(payload)]
    IN  mkBig(top >= 128,
              magNorm([payload EXCEPT ![Len(payload)] = top % 128]))

\* no shorter payload reads as the same number: the last byte carries
\* magnitude bits, or it is there only because the byte before has its top
\* bit set
MinimalPayload(payload) ==
    \/ payload[Len(payload)] % 128 # 0
    \/ Len(payload) > 1 /\ payload[Len(payload) - 1] >= 128

\* C29: pushNumber(0) is 0x00, pushNumber(n) for n in 1..16 is the byte
\* 0x50 + n, pushNumber(-1) is 0x4f, and every other n is pushed as its length
\* followed by the shortest little-endian sign-magnitude payload that reads
\* back as n.
C29_MinimalNumberPush ==
    codec.op = "pushNumber" =>
        LET n == codec.n
            bytes == codec.result.val
            payload == SubSeq(bytes, 2, Len(bytes))
        IN  /\ ~Threw(codec.result)
            /\ IF n = BigInt(0) THEN bytes = <<0>>
               ELSE IF bigGe(n, BigInt(1)) /\ bigLe(n, BigInt(16))
               THEN \E k \in 1..16 : n = BigInt(k) /\ bytes = <<80 + k>>
               ELSE IF n = BigInt(-1) THEN bytes = <<79>>
               ELSE /\ Len(bytes) >= 2
                    /\ bytes[1] = Len(payload)
                    /\ scriptNum(payload) = n
                    /\ MinimalPayload(payload)

\* 128 was pushed: its magnitude fills a byte, so a second byte carries the
\* sign
C29_Witness ==
    /\ codec.op = "pushNumber"
    /\ codec.n = BigInt(128)
    /\ codec.result = Ok(<<2, 128, 0>>)

(* C30 *)

\* C30: in a transaction buildTradeTransaction returns for a route
\* calculateRoute returned, the values of the outputs sum to no more than the
\* values of the inputs, and no output value is negative.
C30_OutputsWithinInputs ==
    (TransactionBuilt /\ calculateRoute(pools, trade.params) = Ok(trade.route))
        => LET tx == trade.result.val
           IN  /\ bigLe(sumValues(tx.outputs), sumValues(tx.inputs))
               /\ \A j \in 1..Len(tx.outputs) :
                      bigGe(tx.outputs[j].value, BigInt(0))

-----------------------------------------------------------------------------
(* the whole SDK                                                            *)

Init == ArithInit \/ QuoteInit \/ CodecInit \/ RouterInit

Next == ArithNext \/ QuoteNext \/ CodecNext \/ RouterNext

Spec == Init /\ [][Next]_vars

=============================================================================
